---- MODULE Spec2Model ----
(***************************************************************************)
(* Model of rank_ads_by_active_duration.py: one run of main(), from the    *)
(* parsed command line to the report on standard output and in the output  *)
(* file.  Each action is one stretch of main(); the helper functions of    *)
(* the script are operators with the script's names.                       *)
(*                                                                         *)
(* Values that Python keeps dynamically typed are tagged records here:     *)
(*   epoch field   [kind : absent | int | beyond_year_9999 | beyond_time_t]*)
(*   string field  [kind : absent | empty | malformed | iso, wall, suffix] *)
(*   datetime      [kind : dt | none | raise, wall, aware, off, exc]       *)
(* A datetime carries its wall-clock reading in seconds (wall), whether it *)
(* has a tzinfo (aware) and that tzinfo's offset in seconds (off); the     *)
(* instant it denotes is wall - off.  Epochs outside the calendar range    *)
(* (e.g. 10**12) and outside the platform time_t range (e.g. 10**20) do    *)
(* not fit the model checker's integers and are the two symbolic kinds.    *)
(***************************************************************************)
EXTENDS Integers, Sequences, FiniteSets, TLC

VARIABLES pc, args_now, payload, now, ads, idx, ranking, stdout, outfile,
          exit_status, err

vars == <<pc, args_now, payload, now, ads, idx, ranking, stdout, outfile,
          exit_status, err>>

\* Longest ad list of an input payload.
MaxAds == 3

\* format_timedelta's divisor.
SecondsPerDay == 86400

----------------------------------------------------------------------------
\* Input values

AbsentEpoch == [kind |-> "absent", v |-> 0]
EpochInt(n) == [kind |-> "int", v |-> n]
BeyondYear9999 == [kind |-> "beyond_year_9999", v |-> 0]
BeyondTimeT == [kind |-> "beyond_time_t", v |-> 0]

AbsentStr == [kind |-> "absent", wall |-> 0, suffix |-> ""]
EmptyStr == [kind |-> "empty", wall |-> 0, suffix |-> ""]
MalformedStr == [kind |-> "malformed", wall |-> 0, suffix |-> ""]
IsoStr(w, sfx) == [kind |-> "iso", wall |-> w, suffix |-> sfx]

\* An ad object; is_active is "absent" (missing or null), "false" or "true".
Ad(sd, ss, ed, es, act) ==
    [ad_archive_id |-> 0, page_name |-> "page",
     start_date |-> sd, start_date_string |-> ss,
     end_date |-> ed, end_date_string |-> es, is_active |-> act]

\* The ad shapes an input list is drawn from.
AdDomain ==
    { Ad(EpochInt(1000), AbsentStr, EpochInt(1432), AbsentStr, "absent"),
      Ad(EpochInt(1000), IsoStr(5000, "Z"), EpochInt(260200), IsoStr(6000, "Z"), "absent"),
      Ad(EpochInt(1000), AbsentStr, EpochInt(500), AbsentStr, "false"),
      Ad(AbsentEpoch, MalformedStr, EpochInt(260200), AbsentStr, "true"),
      Ad(EpochInt(1000), AbsentStr, AbsentEpoch, EmptyStr, "false"),
      Ad(EpochInt(1000), AbsentStr, AbsentEpoch, AbsentStr, "true"),
      Ad(EpochInt(1000), AbsentStr, AbsentEpoch, IsoStr(2000, ""), "absent"),
      Ad(AbsentEpoch, IsoStr(8200, "+02:00"), EpochInt(1432), AbsentStr, "absent"),
      Ad(BeyondYear9999, IsoStr(1000, "Z"), EpochInt(1432), AbsentStr, "absent"),
      Ad(BeyondTimeT, AbsentStr, EpochInt(1432), AbsentStr, "absent"),
      Ad(EpochInt(1000), AbsentStr, BeyondTimeT, AbsentStr, "true"),
      Ad(AbsentEpoch, IsoStr(1000, ""), AbsentEpoch, IsoStr(1432, ""), "absent") }

\* Lists of at most MaxAds ads; the i-th ad of a list carries archive id i.
WithIds(L) == [i \in 1..Len(L) |-> [L[i] EXCEPT !.ad_archive_id = i]]

AdLists == UNION { [1..n -> AdDomain] : n \in 0..MaxAds }

ShortAdLists == UNION { [1..n -> AdDomain] : n \in 0..1 }

\* Values found under a container key of the payload.
AbsentKey == [kind |-> "absent", items |-> <<>>]
TextValue == [kind |-> "string", items |-> <<>>]
ListValue(L) == [kind |-> "list", items |-> WithIds(L)]

OtherList == ListValue(<<Ad(EpochInt(1000), AbsentStr, EpochInt(87400), AbsentStr, "absent")>>)

Object(d, r) == [kind |-> "object", data |-> d, results |-> r]
ArrayPayload == [kind |-> "array", data |-> AbsentKey, results |-> AbsentKey]
NoPayload == [kind |-> "none", data |-> AbsentKey, results |-> AbsentKey]

Payloads ==
    { Object(ListValue(L), OtherList) : L \in AdLists }
      \cup { Object(TextValue, ListValue(L)) : L \in AdLists }
      \cup { Object(d, ListValue(L)) : d \in {AbsentKey}, L \in ShortAdLists }
      \cup { Object(ListValue(L), r) : r \in {AbsentKey, TextValue}, L \in ShortAdLists }
      \cup { Object(d, r) : d \in {AbsentKey, TextValue}, r \in {AbsentKey, TextValue} }
      \cup { ArrayPayload }

\* Values of the --now option.
NowArgs == { AbsentStr, EmptyStr, MalformedStr, IsoStr(90000, "Z"), IsoStr(90000, "") }

\* Readings of the wall clock, datetime.now(tz=timezone.utc).
WallClock == { 50000 }

----------------------------------------------------------------------------
\* datetime values

DT(w, a, o) == [kind |-> "dt", wall |-> w, aware |-> a, off |-> o, exc |-> "none"]
NoneDT == [kind |-> "none", wall |-> 0, aware |-> FALSE, off |-> 0, exc |-> "none"]
RaiseDT(e) == [kind |-> "raise", wall |-> 0, aware |-> FALSE, off |-> 0, exc |-> e]

\* datetime.fromtimestamp(int(epoch_value), tz=timezone.utc)
fromtimestamp(e) ==
    CASE e.kind = "int" -> DT(e.v, TRUE, 0)
      [] e.kind = "beyond_year_9999" -> RaiseDT("ValueError")
      [] e.kind = "beyond_time_t" -> RaiseDT("OverflowError")

\* Seconds east of UTC of an offset suffix.
OffsetSeconds(sfx) == IF sfx = "+02:00" THEN 7200 ELSE 0

\* datetime.fromisoformat(s): no offset gives a naive datetime, an offset
\* gives an aware one that keeps the offset it was written with.
fromisoformat(s) ==
    CASE s.kind = "iso" /\ s.suffix = "" -> DT(s.wall, FALSE, 0)
      [] s.kind = "iso" /\ s.suffix # "" -> DT(s.wall, TRUE, OffsetSeconds(s.suffix))
      [] OTHER -> RaiseDT("ValueError")

\* iso_string[:-1] + "+00:00" when the string ends with "Z"
ReplaceZ(s) == IF s.kind = "iso" /\ s.suffix = "Z" THEN [s EXCEPT !.suffix = "+00:00"] ELSE s

\* Truth value of a string: None and "" are falsy.
StrTruthy(s) == s.kind \in {"malformed", "iso"}

IsoBranch(s) ==
    IF StrTruthy(s)
    THEN LET r == fromisoformat(ReplaceZ(s))
         IN IF r.kind = "raise" /\ r.exc = "ValueError" THEN NoneDT ELSE r
    ELSE NoneDT

\* parse_datetime with the precedence turned round: the string wins over the epoch.
parse_datetime_string_first(epoch_value, iso_string) ==
    IF IsoBranch(iso_string).kind = "dt" THEN IsoBranch(iso_string)
    ELSE IF epoch_value.kind # "absent"
    THEN LET r == fromtimestamp(epoch_value)
         IN IF r.kind = "dt" THEN r
            ELSE IF r.exc \in {"ValueError", "OSError"} THEN NoneDT
            ELSE r
    ELSE NoneDT

parse_datetime(epoch_value, iso_string) ==
    IF epoch_value.kind # "absent"
    THEN LET r == fromtimestamp(epoch_value)
         IN IF r.kind = "dt" THEN r
            ELSE IF r.exc \in {"ValueError", "OSError"} THEN IsoBranch(iso_string)
            ELSE r
    ELSE IsoBranch(iso_string)

\* Truth value of ad.get("is_active").
FlagTruthy(f) == f = "true"

determine_end_time(ad, default_now) ==
    LET end_time == parse_datetime(ad.end_date, ad.end_date_string)
    IN IF end_time.kind = "none" /\ FlagTruthy(ad.is_active) THEN default_now
       ELSE end_time

\* iter_ads looking under 'results' before 'data'.
iter_ads_results_first(data) ==
    IF data.results.kind = "list" THEN data.results.items
    ELSE IF data.data.kind = "list" THEN data.data.items
    ELSE <<>>

iter_ads(data) ==
    IF data.data.kind = "list" THEN data.data.items
    ELSE IF data.results.kind = "list" THEN data.results.items
    ELSE <<>>

----------------------------------------------------------------------------
\* Durations

\* end_time - start_time, as (end_time - start_time).total_seconds(): Python
\* refuses to subtract a naive datetime from an aware one and vice versa.
Subtract(end_time, start_time) ==
    IF end_time.aware # start_time.aware
    THEN [kind |-> "raise", exc |-> "TypeError", seconds |-> 0]
    ELSE [kind |-> "ok", exc |-> "none",
          seconds |-> (end_time.wall - end_time.off) - (start_time.wall - start_time.off)]

\* The loop without its check of the sign of the duration.
NegativeDuration_never(duration_seconds) == FALSE

\* if duration_seconds < 0: continue
NegativeDuration(duration_seconds) == duration_seconds < 0

\* Scale n/d into [1, 2) by powers of two, as the binary exponent does.
RECURSIVE Normalize(_, _)
Normalize(n, d) ==
    IF n >= 2 * d THEN Normalize(n, 2 * d)
    ELSE IF n < d THEN Normalize(2 * n, d)
    ELSE <<n, d>>

\* Long division for the k bits of the significand after the leading one;
\* r is the remainder so far and bit the last bit produced.  The result is the
\* sign of (the double nearest to the quotient) - (the quotient), under
\* round-to-nearest, ties-to-even.
RECURSIVE RoundingSign(_, _, _, _)
RoundingSign(r, d, k, bit) ==
    IF k = 0
    THEN IF r = 0 THEN 0
         ELSE IF 2 * r < d THEN -1
         ELSE IF 2 * r > d THEN 1
         ELSE IF bit = 1 THEN 1 ELSE -1
    ELSE RoundingSign((2 * r) % d, d, k - 1, IF 2 * r >= d THEN 1 ELSE 0)

\* Sign of the error of the double-precision quotient n / d, n >= 0, d > 0.
DoubleQuotientError(n, d) ==
    IF n = 0 THEN 0
    ELSE LET nd == Normalize(n, d)
         IN RoundingSign(nd[1] - nd[2], nd[2], 52, 1)

\* format_timedelta: f"{delta_seconds / 86400:.2f}", as a count of hundredths
\* of a day.  The division is done in double precision and the formatting
\* rounds the double's exact value to two decimals (half to even), so where
\* the true quotient lies on a midpoint the double's error decides.
format_timedelta(delta_seconds) ==
    LET lo == (100 * delta_seconds) \div SecondsPerDay
        rest == (100 * delta_seconds) % SecondsPerDay
        e == DoubleQuotientError(delta_seconds, SecondsPerDay)
    IN IF 2 * rest < SecondsPerDay THEN lo
       ELSE IF 2 * rest > SecondsPerDay THEN lo + 1
       ELSE IF e < 0 THEN lo
       ELSE IF e > 0 THEN lo + 1
       ELSE IF lo % 2 = 0 THEN lo ELSE lo + 1

\* strftime("%Y-%m-%d %H:%M"): the datetime's own wall-clock reading, cut to
\* the minute; the tzinfo is not consulted.
strftime(t) == t.wall \div 60

----------------------------------------------------------------------------
\* Ranking

Entry(ad, start_time, end_time, duration_seconds) ==
    [ad_archive_id |-> ad.ad_archive_id, page_name |-> ad.page_name,
     start_time |-> start_time, end_time |-> end_time,
     duration_seconds |-> duration_seconds]

Reverse(s) == [i \in 1..Len(s) |-> s[Len(s) + 1 - i]]

\* Insert x into the ascending sequence s behind every element whose key is
\* not greater than x's.
InsertAscending(s, x) ==
    LET p == Cardinality({i \in 1..Len(s) : s[i].duration_seconds <= x.duration_seconds})
    IN SubSeq(s, 1, p) \o <<x>> \o SubSeq(s, p + 1, Len(s))

RECURSIVE StableAscending(_)
StableAscending(s) ==
    IF s = <<>> THEN <<>>
    ELSE InsertAscending(StableAscending(SubSeq(s, 1, Len(s) - 1)), s[Len(s)])

\* An ascending sort reversed afterwards, which turns round the ties.
SortDescending_reversed_after(s) == Reverse(StableAscending(s))

\* ranking.sort(key=duration_seconds, reverse=True): list.sort reverses the
\* list, sorts it stably in ascending order and reverses it again.
SortDescending(s) == Reverse(StableAscending(Reverse(s)))

----------------------------------------------------------------------------
\* Report

Line(k, rank, id, page, s, e, days) ==
    [kind |-> k, rank |-> rank, ad_archive_id |-> id, page_name |-> page,
     start_str |-> s, end_str |-> e, active_days |-> days]

\* "No ads with valid start and end times found."
MessageLine == Line("message", 0, 0, "", 0, 0, 0)
HeaderLine == Line("header", 0, 0, "", 0, 0, 0)
SeparatorLine == Line("separator", 0, 0, "", 0, 0, 0)

RowLine(index, item) ==
    Line("row", index, item.ad_archive_id, item.page_name,
         strftime(item.start_time), strftime(item.end_time),
         format_timedelta(item.duration_seconds))

\* The report without the test for an empty ranking.
ReportLines_always_table(rk) ==
    <<HeaderLine, SeparatorLine>> \o [i \in 1..Len(rk) |-> RowLine(i, rk[i])]

\* The list `lines` of main; print() puts the same lines on standard output
\* and write_text("\n".join(lines) + "\n") ends each of them with a newline.
ReportLines(rk) ==
    IF rk = <<>> THEN <<MessageLine>>
    ELSE <<HeaderLine, SeparatorLine>> \o [i \in 1..Len(rk) |-> RowLine(i, rk[i])]

----------------------------------------------------------------------------
\* The body of the per-ad loop of main, for one ad: the ad is skipped
\* (continue), appended to the ranking, or an exception leaves the loop.

Skipped == [kind |-> "skip", exc |-> "none", raised_in |-> "none", entry |-> <<>>]
Raised(e, where) == [kind |-> "raise", exc |-> e, raised_in |-> where, entry |-> <<>>]
Ranked(en) == [kind |-> "append", exc |-> "none", raised_in |-> "none", entry |-> <<en>>]

AdStep(ad, default_now) ==
    LET start_time == parse_datetime(ad.start_date, ad.start_date_string)
        end_time == determine_end_time(ad, default_now)
        delta == Subtract(end_time, start_time)
    IN IF start_time.kind = "raise" THEN Raised(start_time.exc, "parse_datetime")
       ELSE IF start_time.kind = "none" THEN Skipped
       ELSE IF end_time.kind = "raise" THEN Raised(end_time.exc, "parse_datetime")
       ELSE IF end_time.kind = "none" THEN Skipped
       ELSE IF delta.kind = "raise" THEN Raised(delta.exc, "datetime.__sub__")
       ELSE IF NegativeDuration(delta.seconds) THEN Skipped
       ELSE Ranked(Entry(ad, start_time, end_time, delta.seconds))

----------------------------------------------------------------------------
\* One run of main

NoError == [exc |-> "none", raised_in |-> "none"]
NoFile == [written |-> FALSE, text |-> <<>>]

\* exit_status is -1 while the process runs.
Init ==
    /\ pc = "parse_args"
    /\ args_now = AbsentStr
    /\ payload = NoPayload
    /\ now = NoneDT
    /\ ads = <<>>
    /\ idx = 1
    /\ ranking = <<>>
    /\ stdout = <<>>
    /\ outfile = NoFile
    /\ exit_status = -1
    /\ err = NoError

\* An uncaught exception or SystemExit(message) ends the process with status 1.
Fail(e, where) ==
    /\ pc' = "failed"
    /\ exit_status' = 1
    /\ err' = [exc |-> e, raised_in |-> where]

ParseArgs ==
    /\ pc = "parse_args"
    /\ \E n \in NowArgs : args_now' = n
    /\ pc' = "read_input"
    /\ UNCHANGED <<payload, now, ads, idx, ranking, stdout, outfile, exit_status, err>>

\* raw_text = args.input.read_text(...); payload = json.loads(raw_text)
ReadInput ==
    /\ pc = "read_input"
    /\ \/ /\ Fail("OSError", "read_text")
          /\ UNCHANGED payload
       \/ /\ Fail("JSONDecodeError", "json.loads")
          /\ UNCHANGED payload
       \/ /\ \E p \in Payloads : payload' = p
          /\ pc' = "resolve_now"
          /\ UNCHANGED <<exit_status, err>>
    /\ UNCHANGED <<args_now, now, ads, idx, ranking, stdout, outfile>>

\* if args.now: now = parse_datetime(None, args.now) ... else: now = datetime.now(tz=utc)
ResolveNow ==
    /\ pc = "resolve_now"
    /\ IF StrTruthy(args_now)
       THEN LET t == parse_datetime(AbsentEpoch, args_now)
            IN IF t.kind = "none"
               THEN /\ Fail("SystemExit", "main")
                    /\ now' = t
               ELSE /\ now' = t
                    /\ pc' = "iter_ads"
                    /\ UNCHANGED <<exit_status, err>>
       ELSE /\ \E w \in WallClock : now' = DT(w, TRUE, 0)
            /\ pc' = "iter_ads"
            /\ UNCHANGED <<exit_status, err>>
    /\ UNCHANGED <<args_now, payload, ads, idx, ranking, stdout, outfile>>

\* ranking = []; for ad in iter_ads(payload): a payload that is not a JSON
\* object has no get() and iter_ads raises AttributeError.
IterAds ==
    /\ pc = "iter_ads"
    /\ IF payload.kind = "object"
       THEN /\ ads' = iter_ads(payload)
            /\ pc' = "loop"
            /\ UNCHANGED <<exit_status, err>>
       ELSE /\ Fail("AttributeError", "iter_ads")
            /\ UNCHANGED ads
    /\ ranking' = <<>>
    /\ idx' = 1
    /\ UNCHANGED <<args_now, payload, now, stdout, outfile>>

\* One iteration of the loop.
ProcessAd ==
    /\ pc = "loop"
    /\ idx <= Len(ads)
    /\ LET step == AdStep(ads[idx], now)
       IN IF step.kind = "raise"
          THEN /\ Fail(step.exc, step.raised_in)
               /\ UNCHANGED <<idx, ranking>>
          ELSE /\ ranking' = ranking \o step.entry
               /\ idx' = idx + 1
               /\ UNCHANGED <<pc, exit_status, err>>
    /\ UNCHANGED <<args_now, payload, now, ads, stdout, outfile>>

\* ranking.sort(key=..., reverse=True), once the loop is exhausted.
Sort ==
    /\ pc = "loop"
    /\ idx > Len(ads)
    /\ ranking' = SortDescending(ranking)
    /\ pc' = "render"
    /\ UNCHANGED <<args_now, payload, now, ads, idx, stdout, outfile, exit_status, err>>

\* The message or the table, printed and written to the output file; main
\* returns and the process exits with status 0.
Render ==
    /\ pc = "render"
    /\ stdout' = ReportLines(ranking)
    /\ outfile' = [written |-> TRUE, text |-> ReportLines(ranking)]
    /\ pc' = "done"
    /\ exit_status' = 0
    /\ UNCHANGED <<args_now, payload, now, ads, idx, ranking, err>>

Next ==
    \/ ParseArgs
    \/ ReadInput
    \/ ResolveNow
    \/ IterAds
    \/ ProcessAd
    \/ Sort
    \/ Render

Spec == Init /\ [][Next]_vars

----------------------------------------------------------------------------
\* Vocabulary of the properties

Terminated == pc \in {"done", "failed"}

\* The loop over iter_ads(payload) has been entered.
LoopEntered ==
    \/ pc \in {"loop", "render", "done"}
    \/ pc = "failed" /\ err.raised_in \in {"parse_datetime", "datetime.__sub__"}

\* The loop body has run for the ad at position i.
Processed(i) == LoopEntered /\ (i < idx \/ (i = idx /\ pc = "failed"))

IsUTC(t) == t.kind = "dt" /\ t.aware /\ t.off = 0

Instant(t) == t.wall - t.off

IsRanked(i) == \E k \in 1..Len(ranking) : ranking[k].ad_archive_id = i

RowsOf(lines) == SelectSeq(lines, LAMBDA l : l.kind = "row")

Abs(x) == IF x < 0 THEN -x ELSE x

----------------------------------------------------------------------------
\* Properties

\* C1: an ad that is malformed or incomplete never aborts the run: whenever
\* the process has failed, the exception did not come out of the per-ad loop
\* (neither from resolving a timestamp nor from taking end - start).
C1_MalformedAdNeverAborts ==
    pc = "failed" => err.raised_in \notin {"parse_datetime", "datetime.__sub__"}

\* C2: parse_datetime never terminates with an error; every call returns a
\* resolved timestamp or None, so no exception is ever raised in it.
C2_ParseDatetimeNeverRaises ==
    err.raised_in # "parse_datetime"

\* C3: every resolved timestamp is normalized to UTC: the 'now' value and the
\* start and end time of every ranked entry are aware datetimes at offset 0.
C3_ResolvedTimestampsAreUTC ==
    /\ now.kind = "dt" => IsUTC(now)
    /\ \A k \in 1..Len(ranking) :
          IsUTC(ranking[k].start_time) /\ IsUTC(ranking[k].end_time)

\* C4: at every point of the run every ranking entry, and every row of the
\* output, has a resolved start, a resolved end and a duration end - start
\* that is not negative.
C4_RankedDurationsNonNegative ==
    /\ \A k \in 1..Len(ranking) :
          /\ ranking[k].start_time.kind = "dt"
          /\ ranking[k].end_time.kind = "dt"
          /\ ranking[k].duration_seconds =
                Instant(ranking[k].end_time) - Instant(ranking[k].start_time)
          /\ ranking[k].duration_seconds >= 0
    /\ \A lines \in {stdout, outfile.text} :
          \A n \in 1..Len(lines) :
             lines[n].kind = "row" =>
                \E k \in 1..Len(ranking) :
                   /\ ranking[k].ad_archive_id = lines[n].ad_archive_id
                   /\ ranking[k].duration_seconds >= 0
                   /\ lines[n].active_days >= 0

\* A run finished with a ranked ad next to an ad whose end lies before its start.
C4_Witness ==
    /\ pc = "done"
    /\ Len(RowsOf(outfile.text)) >= 1
    /\ \E i \in 1..Len(ads) :
          /\ ads[i].start_date.kind = "int"
          /\ ads[i].end_date.kind = "int"
          /\ ads[i].end_date.v < ads[i].start_date.v

\* C5: the output rows are in non-increasing order of duration and ads of
\* equal duration keep the relative order they have in the input list.
C5_SortedDescendingStable ==
    /\ pc \in {"render", "done"} =>
          \A j, k \in 1..Len(ranking) :
             j < k =>
                /\ ranking[j].duration_seconds >= ranking[k].duration_seconds
                /\ ranking[j].duration_seconds = ranking[k].duration_seconds
                      => ranking[j].ad_archive_id < ranking[k].ad_archive_id
    /\ pc = "done" =>
          \A lines \in {stdout, outfile.text} :
             /\ Len(RowsOf(lines)) = Len(ranking)
             /\ \A k \in 1..Len(ranking) :
                   RowsOf(lines)[k].ad_archive_id = ranking[k].ad_archive_id

\* Three rows: the first input ad has the shortest duration and comes last,
\* the other two tie and stay in input order.
C5_Witness ==
    /\ pc = "done"
    /\ Len(RowsOf(outfile.text)) = 3
    /\ ranking[1].duration_seconds = ranking[2].duration_seconds
    /\ ranking[2].duration_seconds > ranking[3].duration_seconds
    /\ RowsOf(outfile.text)[3].ad_archive_id = 1
    /\ RowsOf(outfile.text)[1].ad_archive_id = 2

\* The end fields of the ad resolve to a timestamp.
EndResolved(ad) == parse_datetime(ad.end_date, ad.end_date_string).kind = "dt"

\* C6: for an ad whose end time cannot be resolved from (end_date,
\* end_date_string) and whose is_active flag is truthy, determine_end_time
\* returns exactly 'now', and the ranked entry ends at 'now'; with the flag
\* not truthy the ad is skipped.
C6_ActiveFallbackIsNow ==
    \A i \in 1..Len(ads) :
       (/\ Processed(i)
        /\ parse_datetime(ads[i].start_date, ads[i].start_date_string).kind = "dt"
        /\ ~EndResolved(ads[i]))
       => IF FlagTruthy(ads[i].is_active)
          THEN /\ determine_end_time(ads[i], now) = now
               /\ \A k \in 1..Len(ranking) :
                     ranking[k].ad_archive_id = i => ranking[k].end_time = now
          ELSE ~IsRanked(i)

\* A --now value was supplied and does not parse as a timestamp.
InvalidNowSupplied ==
    /\ args_now.kind # "absent"
    /\ parse_datetime(AbsentEpoch, args_now).kind # "dt"

\* C7: whenever a fatal condition occurred (input unreadable, input not valid
\* JSON, supplied --now value that does not parse), the process has ended
\* with a non-zero status, nothing was printed and no output file written.
C7_FatalLeavesNoOutput ==
    (Terminated /\ (err.raised_in \in {"read_text", "json.loads"} \/ InvalidNowSupplied))
       => /\ exit_status # 0
          /\ stdout = <<>>
          /\ ~outfile.written

\* C8: with an empty ad list, or every ad skipped, the report on standard
\* output and in the file is exactly the one message line; otherwise the
\* message is absent and the table is header, separator and one row per
\* qualifying ad, ranked 1..n.
C8_MessageOrTable ==
    pc = "done" =>
       /\ outfile.written
       /\ \A lines \in {stdout, outfile.text} :
             IF \A i \in 1..Len(ads) : ~IsRanked(i)
             THEN lines = <<MessageLine>>
             ELSE /\ \A n \in 1..Len(lines) : lines[n].kind # "message"
                  /\ Len(lines) = 2 + Cardinality({i \in 1..Len(ads) : IsRanked(i)})
                  /\ lines[1].kind = "header"
                  /\ lines[2].kind = "separator"
                  /\ \A n \in 3..Len(lines) :
                        lines[n].kind = "row" /\ lines[n].rank = n - 2

\* A run over a list of at least two ads, all of them skipped.
C8_Witness ==
    /\ pc = "done"
    /\ Len(ads) >= 2
    /\ ranking = <<>>
    /\ stdout = <<MessageLine>>
    /\ outfile.text = <<MessageLine>>

\* C9: iter_ads returns the list under 'data' if that value is a list,
\* otherwise the list under 'results' if that value is a list, otherwise the
\* empty list, and raises nothing for a payload object whatever its keys hold.
C9_FirstListWins ==
    payload.kind = "object" =>
       /\ err.raised_in # "iter_ads"
       /\ LoopEntered =>
             /\ payload.data.kind = "list" => ads = payload.data.items
             /\ (payload.data.kind # "list" /\ payload.results.kind = "list")
                   => ads = payload.results.items
             /\ (payload.data.kind # "list" /\ payload.results.kind # "list")
                   => ads = <<>>

\* Both keys hold a list, the two lists differ, and the loop runs over 'data'.
C9_Witness ==
    /\ pc = "loop"
    /\ payload.data.kind = "list"
    /\ payload.results.kind = "list"
    /\ payload.data.items # payload.results.items
    /\ Len(ads) >= 2

\* C10: for an ad with integer epoch start_date and end_date and no active
\* flag, the active-days value of its row is (end - start) / 86400 rounded to
\* two decimals (a nearest hundredth), whatever date strings the ad carries.
C10_ActiveDaysFromEpochs ==
    pc = "done" =>
       \A lines \in {stdout, outfile.text} :
          \A n \in 1..Len(lines) :
             (/\ lines[n].kind = "row"
              /\ ads[lines[n].ad_archive_id].start_date.kind = "int"
              /\ ads[lines[n].ad_archive_id].end_date.kind = "int"
              /\ ~FlagTruthy(ads[lines[n].ad_archive_id].is_active))
             => 2 * Abs(lines[n].active_days * SecondsPerDay
                        - 100 * (ads[lines[n].ad_archive_id].end_date.v
                                 - ads[lines[n].ad_archive_id].start_date.v))
                   <= SecondsPerDay

\* A row showing 3.00 days for an ad that also carries date strings naming
\* other times.
C10_Witness ==
    /\ pc = "done"
    /\ \E n \in 1..Len(outfile.text) :
          /\ outfile.text[n].kind = "row"
          /\ outfile.text[n].active_days = 300
          /\ ads[outfile.text[n].ad_archive_id].start_date.kind = "int"
          /\ ads[outfile.text[n].ad_archive_id].start_date_string.kind = "iso"
          /\ ads[outfile.text[n].ad_archive_id].end_date_string.kind = "iso"

====
